---- MODULE Spec2Model ----
(***************************************************************************)
(* chv: the local registry of installed ClickHouse versions, its default   *)
(* pointer and the installer, modelled over a tree-shaped file system.     *)
(*                                                                         *)
(* Strings are sequences of fragments.  Every character the program        *)
(* inspects ("/", ".", " ", digits) is a fragment of its own; a literal of *)
(* the program that is only ever used whole ("versions", "clickhouse",     *)
(* "default", "stable") is one fragment.                                   *)
(* A path is a sequence of component names below ~/.clickhouse; the file   *)
(* system maps each existing path to its node.                             *)
(*                                                                         *)
(* The registry commands run under Spec.  The functions that touch no file *)
(* (the release catalog, the resolver, the comparator) run under their own *)
(* specifications, which draw the inputs of one call into call and leave   *)
(* what the call returned in ret.  One install taken step by step, two     *)
(* installs of one version at once, and a remove beside a set default run  *)
(* under specifications of their own, with the locals of each process in   *)
(* procs.                                                                  *)
(***************************************************************************)
EXTENDS Integers, Sequences, FiniteSets, TLC

VARIABLES fs, platform, lastOp, prevFs, call, ret, procs

vars == <<fs, platform, lastOp, prevFs, call, ret, procs>>

----------------------------------------------------------------------------
(* Bounds *)

\* the longest payload, in chunks, that the release host streams
MaxChunks == 2

----------------------------------------------------------------------------
(* Strings *)

Digits == {"0", "1", "2", "3", "4", "5", "6", "7", "8", "9"}

Whitespace == {" ", "\n", "\t"}

\* the command-line arguments the model draws from: a plain version name,
\* the same name with a trailing separator, a blank and the empty string.
\* None is absolute and none has a "." or ".." component: join and exists
\* below cover relative paths that only descend.
ArgStrings ==
    { <<"7">>, <<"7", "/">>, <<" ">>, <<>> }

Channels == { <<"stable">>, <<"lts">> }

\* the payloads the release host may stream: up to MaxChunks chunks
Payloads == UNION { [1..n -> {<<"x">>}] : n \in 0..MaxChunks }

\* str::trim: strips white space at both ends
RECURSIVE TrimStart(_)
TrimStart(s) ==
    IF s # <<>> /\ Head(s) \in Whitespace THEN TrimStart(Tail(s)) ELSE s

RECURSIVE TrimEnd(_)
TrimEnd(s) ==
    IF s # <<>> /\ s[Len(s)] \in Whitespace
    THEN TrimEnd(SubSeq(s, 1, Len(s) - 1))
    ELSE s

trim(s) == TrimEnd(TrimStart(s))

\* str::split(sep): the pieces between separators, empty pieces included
RECURSIVE split(_, _)
split(s, sep) ==
    IF \E i \in 1..Len(s) : s[i] = sep
    THEN LET i == CHOOSE j \in 1..Len(s) :
                     s[j] = sep /\ \A k \in 1..(j - 1) : s[k] # sep
         IN  <<SubSeq(s, 1, i - 1)>> \o split(SubSeq(s, i + 1, Len(s)), sep)
    ELSE <<s>>

RECURSIVE Flatten(_)
Flatten(ss) == IF ss = <<>> THEN <<>> ELSE Head(ss) \o Flatten(Tail(ss))

SelectNonEmpty(ss) == SelectSeq(ss, LAMBDA c : c # <<>>)

----------------------------------------------------------------------------
(* Version comparison *)

DigitVal(d) ==
    CASE d = "0" -> 0 [] d = "1" -> 1 [] d = "2" -> 2 [] d = "3" -> 3
      [] d = "4" -> 4 [] d = "5" -> 5 [] d = "6" -> 6 [] d = "7" -> 7
      [] d = "8" -> 8 [] d = "9" -> 9

\* u64::MAX, 18446744073709551615, as its decimal digits
U64Max ==
    <<"1", "8", "4", "4", "6", "7", "4", "4", "0", "7",
      "3", "7", "0", "9", "5", "5", "1", "6", "1", "5">>

RECURSIVE StripZeros(_)
StripZeros(ds) ==
    IF ds # <<>> /\ Head(ds) = "0" THEN StripZeros(Tail(ds)) ELSE ds

\* a comparison of the digits as text, character by character
RECURSIVE CmpDigitsLexical(_, _)
CmpDigitsLexical(x, y) ==
    IF x = <<>> \/ y = <<>>
    THEN (IF Len(x) = Len(y) THEN "Equal"
          ELSE IF Len(x) < Len(y) THEN "Less" ELSE "Greater")
    ELSE IF Head(x) # Head(y)
         THEN (IF DigitVal(Head(x)) < DigitVal(Head(y)) THEN "Less" ELSE "Greater")
         ELSE CmpDigitsLexical(Tail(x), Tail(y))

\* u64::cmp on naturals written as digits without leading zeros
RECURSIVE CmpDigits(_, _)
CmpDigits(x, y) ==
    IF Len(x) # Len(y) THEN (IF Len(x) < Len(y) THEN "Less" ELSE "Greater")
    ELSE IF x = <<>> THEN "Equal"
    ELSE IF Head(x) # Head(y)
         THEN (IF DigitVal(Head(x)) < DigitVal(Head(y)) THEN "Less" ELSE "Greater")
         ELSE CmpDigits(Tail(x), Tail(y))

\* str::parse::<u64>: an optional "+", then one or more decimal digits, the
\* value at most u64::MAX; the value is kept as digits without leading zeros
parse_u64(c) ==
    LET body == IF c # <<>> /\ Head(c) = "+" THEN Tail(c) ELSE c
        n    == StripZeros(body)
    IN  IF body = <<>> \/ \E i \in 1..Len(body) : body[i] \notin Digits
        THEN [ok |-> FALSE, val |-> <<>>]
        ELSE IF CmpDigits(n, U64Max) = "Greater"
             THEN [ok |-> FALSE, val |-> <<>>]
             ELSE [ok |-> TRUE, val |-> n]

\* a collection that keeps 0 for a component that does not parse
RECURSIVE FilterParseZero(_)
FilterParseZero(cs) ==
    IF cs = <<>> THEN <<>>
    ELSE LET r == parse_u64(Head(cs))
         IN  <<IF r.ok THEN r.val ELSE <<>>>> \o FilterParseZero(Tail(cs))

\* split('.').filter_map(|s| s.parse().ok()).collect()
RECURSIVE FilterParse(_)
FilterParse(cs) ==
    IF cs = <<>> THEN <<>>
    ELSE LET r == parse_u64(Head(cs))
         IN  (IF r.ok THEN <<r.val>> ELSE <<>>) \o FilterParse(Tail(cs))

version_parts(s) == FilterParse(split(s, "."))

\* a comparison of the components by their digits as text
RECURSIVE CmpPartsLexical(_, _)
CmpPartsLexical(x, y) ==
    IF x = <<>> \/ y = <<>>
    THEN (IF Len(x) = Len(y) THEN "Equal"
          ELSE IF Len(x) < Len(y) THEN "Less" ELSE "Greater")
    ELSE LET c == CmpDigitsLexical(Head(x), Head(y))
         IN  IF c = "Equal" THEN CmpPartsLexical(Tail(x), Tail(y)) ELSE c

\* a comparison of the paired components alone, without the lengths
RECURSIVE CmpPartsZipOnly(_, _)
CmpPartsZipOnly(x, y) ==
    IF x = <<>> \/ y = <<>> THEN "Equal"
    ELSE LET c == CmpDigits(Head(x), Head(y))
         IN  IF c = "Equal" THEN CmpPartsZipOnly(Tail(x), Tail(y)) ELSE c

\* the loop over the zipped components, then a.len().cmp(&b.len())
RECURSIVE CmpParts(_, _)
CmpParts(x, y) ==
    IF x = <<>> \/ y = <<>>
    THEN (IF Len(x) = Len(y) THEN "Equal"
          ELSE IF Len(x) < Len(y) THEN "Less" ELSE "Greater")
    ELSE LET c == CmpDigits(Head(x), Head(y))
         IN  IF c = "Equal" THEN CmpParts(Tail(x), Tail(y)) ELSE c

\* list.rs compare_versions
compare_versions(a, b) == CmpParts(version_parts(a), version_parts(b))

\* where a stable sort puts x into a sorted list: after every element that
\* does not compare greater than it
RECURSIVE InsertDesc(_, _)
InsertDesc(sorted, x) ==
    IF sorted = <<>> THEN <<x>>
    ELSE IF compare_versions(x, Head(sorted)) = "Greater"
         THEN <<x>> \o sorted
         ELSE <<Head(sorted)>> \o InsertDesc(Tail(sorted), x)

\* versions.sort_by(|a, b| compare_versions(b, a)): stable, newest first
RECURSIVE sort_desc(_)
sort_desc(s) ==
    IF s = <<>> THEN <<>>
    ELSE InsertDesc(sort_desc(SubSeq(s, 1, Len(s) - 1)), s[Len(s)])

----------------------------------------------------------------------------
(* Paths: PathBuf::join and the kernel's path lookup *)

\* a PathBuf: the names from ~/.clickhouse down, and whether its text ends
\* in a separator (the kernel then requires a directory)
base_dir == [names |-> <<>>, dirOnly |-> FALSE]

\* PathBuf::join of a relative string: the string is appended after a
\* separator; repeated separators name nothing, and joining the empty
\* string leaves a trailing separator
join(p, s) ==
    [names   |-> p.names \o SelectNonEmpty(split(s, "/")),
     dirOnly |-> s = <<>> \/ s[Len(s)] = "/"]

versions_dir == join(base_dir, <<"versions">>)

version_dir(version) == join(versions_dir, version)

binary_path(version) == join(version_dir(version), <<"clickhouse">>)

default_file == join(base_dir, <<"default">>)

----------------------------------------------------------------------------
(* The file system *)

DirNode == [kind |-> "dir", data |-> <<>>, exec |-> FALSE]

FileNode(data, exec) == [kind |-> "file", data |-> data, exec |-> exec]

IsPrefix(p, q) == Len(p) <= Len(q) /\ SubSeq(q, 1, Len(p)) = p

\* Path::exists: the lookup succeeds
exists(f, p) ==
    /\ p.names \in DOMAIN f
    /\ p.dirOnly => f[p.names].kind = "dir"

is_dir(f, p) == p.names \in DOMAIN f /\ f[p.names].kind = "dir"

\* a function with one more, or one changed, point
Put(f, names, node) ==
    [n \in DOMAIN f \cup {names} |-> IF n = names THEN node ELSE f[n]]

\* fs::create_dir_all: the directory and every missing ancestor
create_dir_all(f, p) ==
    LET want == { SubSeq(p.names, 1, k) : k \in 0..Len(p.names) }
    IN  [n \in DOMAIN f \cup want |-> IF n \in DOMAIN f THEN f[n] ELSE DirNode]

\* whether create_dir_all can succeed: no ancestor is a file
can_create_dir_all(f, p) ==
    \A k \in 0..Len(p.names) :
        LET n == SubSeq(p.names, 1, k)
        IN  n \in DOMAIN f => f[n].kind = "dir"

\* fs::remove_file
remove_file(f, p) ==
    IF exists(f, p) /\ f[p.names].kind = "file"
    THEN [n \in DOMAIN f \ {p.names} |-> f[n]]
    ELSE f

\* fs::remove_dir_all: the directory and everything below it
remove_dir_all(f, p) ==
    [n \in { m \in DOMAIN f : ~IsPrefix(p.names, m) } |-> f[n]]

\* fs::read_dir: the names of the entries of a directory
read_dir(f, p) ==
    { n[Len(n)] : n \in { m \in DOMAIN f :
                            Len(m) = Len(p.names) + 1 /\ IsPrefix(p.names, m) } }

----------------------------------------------------------------------------
(* Results *)

\* no call of a file-less function is in progress
NoCall == [fn |-> "none"]

NoRet == [res |-> "none"]

\* what the last command was and what it returned: the error kind or "Ok",
\* the error's payload or the value returned, the list returned, whether
\* the command before it was a successful install of the same argument,
\* and whether the command is part of a recovery: a remove right after an
\* install of the same argument that failed and left its directory, or an
\* install right after such a remove succeeded
NoOp ==
    [op |-> "none", arg |-> <<>>, res |-> "none", val |-> <<>>, list |-> <<>>,
     again |-> FALSE, recover |-> FALSE]

Result(op, arg, res, val) ==
    [op |-> op, arg |-> arg, res |-> res, val |-> val, list |-> <<>>,
     again |-> FALSE, recover |-> FALSE]

----------------------------------------------------------------------------
(* The default pointer *)

\* get_default_version without the trim of what it read
get_default_version_no_trim(f) ==
    IF ~exists(f, default_file)
    THEN [res |-> "NoDefaultVersion", val |-> <<>>]
    ELSE LET version == f[default_file.names].data
         IN  IF version = <<>>
             THEN [res |-> "NoDefaultVersion", val |-> <<>>]
             ELSE IF ~exists(f, binary_path(version))
                  THEN [res |-> "VersionNotFound", val |-> version]
                  ELSE [res |-> "Ok", val |-> version]

\* get_default_version without the check that the binary is there
get_default_version_unchecked(f) ==
    IF ~exists(f, default_file)
    THEN [res |-> "NoDefaultVersion", val |-> <<>>]
    ELSE LET version == trim(f[default_file.names].data)
         IN  IF version = <<>>
             THEN [res |-> "NoDefaultVersion", val |-> <<>>]
             ELSE [res |-> "Ok", val |-> version]

\* list.rs get_default_version: the result and its payload
get_default_version(f) ==
    IF ~exists(f, default_file)
    THEN [res |-> "NoDefaultVersion", val |-> <<>>]
    ELSE LET version == trim(f[default_file.names].data)
         IN  IF version = <<>>
             THEN [res |-> "NoDefaultVersion", val |-> <<>>]
             ELSE IF ~exists(f, binary_path(version))
                  THEN [res |-> "VersionNotFound", val |-> version]
                  ELSE [res |-> "Ok", val |-> version]

\* set_default_version that looks for the version's directory, not its binary
set_default_version_dir_check(f, version) ==
    IF ~exists(f, version_dir(version))
    THEN [res |-> "VersionNotFound", val |-> version, fs |-> f]
    ELSE [res |-> "Ok", val |-> <<>>,
          fs  |-> Put(f, default_file.names, FileNode(version, FALSE))]

\* list.rs set_default_version: the result and the file system it leaves
set_default_version(f, version) ==
    IF ~exists(f, binary_path(version))
    THEN [res |-> "VersionNotFound", val |-> version, fs |-> f]
    ELSE [res |-> "Ok", val |-> <<>>,
          fs  |-> Put(f, default_file.names, FileNode(version, FALSE))]

----------------------------------------------------------------------------
(* Listing *)

\* the orders in which read_dir may yield a set of names
Orders(S) ==
    { o \in [1..Cardinality(S) -> S] :
        \A i, j \in 1..Cardinality(S) : o[i] = o[j] => i = j }

\* list_installed_versions that lists every directory, binary or not
list_installed_versions_all_dirs(f, order) ==
    IF ~exists(f, versions_dir)
    THEN <<>>
    ELSE sort_desc(SelectSeq(order,
             LAMBDA name : is_dir(f, join(versions_dir, name))))

\* list.rs list_installed_versions, entries arriving in the given order
list_installed_versions(f, order) ==
    IF ~exists(f, versions_dir)
    THEN <<>>
    ELSE sort_desc(SelectSeq(order,
             LAMBDA name :
                 /\ is_dir(f, join(versions_dir, name))
                 /\ exists(f, join(join(versions_dir, name), <<"clickhouse">>))))

----------------------------------------------------------------------------
(* Platform and download address *)

HostPlatforms ==
    { <<"linux", "x86_64">>, <<"windows", "aarch64">>, <<"macos", "riscv64">> }

\* a detector that looks at the operating system alone
detect_platform_os_only(plat) ==
    IF plat[1] \notin {"macos", "linux"}
    THEN [res |-> "UnsupportedPlatform", val |-> <<plat[1], plat[2]>>]
    ELSE [res |-> "Ok", val |-> <<plat[1], plat[2]>>]

\* resolve.rs detect_platform
detect_platform(plat) ==
    IF plat[1] \notin {"macos", "linux"} \/ plat[2] \notin {"x86_64", "aarch64"}
    THEN [res |-> "UnsupportedPlatform", val |-> <<plat[1], plat[2]>>]
    ELSE [res |-> "Ok", val |-> <<plat[1], plat[2]>>]

\* resolve.rs build_download_url
build_download_url(plat, version, channel) ==
    LET d == detect_platform(plat)
    IN  IF d.res # "Ok" THEN d
        ELSE [res |-> "Ok",
              val |-> <<"https://github.com/ClickHouse/ClickHouse/releases/download/v">>
                      \o version \o <<"-">> \o channel
                      \o <<"/clickhouse-", d.val[1], "-", d.val[2]>>]

----------------------------------------------------------------------------
(* Download and install *)

\* where a download or the steps after it may fail
FailPoints == {"none", "transport", "status", "create", "stream", "write", "chmod"}

\* download.rs download_version: `got` chunks arrive before the failure, if
\* there is one
download_version(f, plat, version, channel, dest, payload, fail, got) ==
    LET url == build_download_url(plat, version, channel)
    IN  IF url.res # "Ok"
        THEN [res |-> url.res, val |-> url.val, fs |-> f]
        ELSE IF fail = "transport"
        THEN [res |-> "Http", val |-> <<>>, fs |-> f]
        ELSE IF fail = "status"
        THEN [res |-> "Download",
              val |-> <<"Failed to download ">> \o url.val \o <<": ", "status">>,
              fs  |-> f]
        ELSE IF fail = "create" \/ is_dir(f, dest)
        THEN [res |-> "Io", val |-> <<>>, fs |-> f]
        ELSE IF fail \in {"stream", "write"}
        THEN [res |-> IF fail = "stream" THEN "Http" ELSE "Io",
              val |-> <<>>,
              fs  |-> Put(f, dest.names,
                          FileNode(Flatten(SubSeq(payload, 1, got)), FALSE))]
        ELSE [res |-> "Ok", val |-> <<>>,
              fs  |-> Put(f, dest.names, FileNode(Flatten(payload), FALSE))]

\* paths.rs ensure_dirs
ensure_dirs(f) ==
    IF can_create_dir_all(f, versions_dir)
    THEN [res |-> "Ok", fs |-> create_dir_all(f, versions_dir)]
    ELSE [res |-> "CreateDir", fs |-> f]

\* install_version without the check that the version is already there
install_version_no_precheck(f, plat, version, channel, payload, fail, got) ==
    LET e   == ensure_dirs(f)
        dir == version_dir(version)
        bin == join(dir, <<"clickhouse">>)
        d   == download_version(create_dir_all(e.fs, dir), plat, version,
                                channel, bin, payload, fail, got)
    IN  IF d.res # "Ok" THEN d
        ELSE IF fail = "chmod"
        THEN [res |-> "Io", val |-> <<>>, fs |-> d.fs]
        ELSE [res |-> "Ok", val |-> <<>>,
              fs  |-> Put(d.fs, bin.names, FileNode(d.fs[bin.names].data, TRUE))]

\* install_version that deletes the version directory when a later step fails
install_version_cleanup(f, plat, version, channel, payload, fail, got) ==
    LET e   == ensure_dirs(f)
        dir == version_dir(version)
        bin == join(dir, <<"clickhouse">>)
    IN  IF exists(e.fs, dir)
        THEN [res |-> "VersionAlreadyInstalled", val |-> version, fs |-> e.fs]
        ELSE LET d == download_version(create_dir_all(e.fs, dir), plat, version,
                                       channel, bin, payload, fail, got)
             IN  IF d.res # "Ok"
                 THEN [d EXCEPT !.fs = e.fs]
                 ELSE IF fail = "chmod"
                 THEN [res |-> "Io", val |-> <<>>, fs |-> e.fs]
                 ELSE [res |-> "Ok", val |-> <<>>,
                       fs  |-> Put(d.fs, bin.names,
                                   FileNode(d.fs[bin.names].data, TRUE))]

\* install.rs install_version
install_version(f, plat, version, channel, payload, fail, got) ==
    LET e   == ensure_dirs(f)
        dir == version_dir(version)
        bin == join(dir, <<"clickhouse">>)
    IN  IF e.res # "Ok"
        THEN [res |-> "CreateDir", val |-> <<>>, fs |-> f]
        ELSE IF exists(e.fs, dir)
        THEN [res |-> "VersionAlreadyInstalled", val |-> version, fs |-> e.fs]
        ELSE IF ~can_create_dir_all(e.fs, dir)
        THEN [res |-> "Io", val |-> <<>>, fs |-> e.fs]
        ELSE LET d == download_version(create_dir_all(e.fs, dir), plat, version,
                                       channel, bin, payload, fail, got)
             IN  IF d.res # "Ok" THEN d
                 ELSE IF fail = "chmod"
                 THEN [res |-> "Io", val |-> <<>>, fs |-> d.fs]
                 ELSE [res |-> "Ok", val |-> <<>>,
                       fs  |-> Put(d.fs, bin.names,
                                   FileNode(d.fs[bin.names].data, TRUE))]

----------------------------------------------------------------------------
(* Removal *)

\* remove that deletes the binary and leaves the version directory
remove_binary_only(f, version) ==
    LET dir == version_dir(version)
    IN  IF ~exists(f, dir)
        THEN [res |-> "VersionNotFound", val |-> version, fs |-> f]
        ELSE [res |-> "Ok", val |-> <<>>,
              fs  |-> remove_file(f, binary_path(version))]

\* remove that never touches the default pointer
remove_keep_pointer(f, version) ==
    LET dir == version_dir(version)
    IN  IF ~exists(f, dir)
        THEN [res |-> "VersionNotFound", val |-> version, fs |-> f]
        ELSE IF ~is_dir(f, dir)
        THEN [res |-> "Io", val |-> <<>>, fs |-> f]
        ELSE [res |-> "Ok", val |-> <<>>, fs |-> remove_dir_all(f, dir)]

\* remove that deletes the directory first and looks at the default after
remove_delete_first(f, version) ==
    LET dir     == version_dir(version)
        deleted == remove_dir_all(f, dir)
        default == get_default_version(deleted)
    IN  IF ~exists(f, dir)
        THEN [res |-> "VersionNotFound", val |-> version, fs |-> f]
        ELSE IF ~is_dir(f, dir)
        THEN [res |-> "Io", val |-> <<>>, fs |-> f]
        ELSE [res |-> "Ok", val |-> <<>>,
              fs  |-> IF default.res = "Ok" /\ default.val = version
                      THEN remove_file(deleted, default_file)
                      ELSE deleted]

\* main.rs remove
remove(f, version) ==
    LET dir     == version_dir(version)
        default == get_default_version(f)
        cleared == IF default.res = "Ok" /\ default.val = version
                   THEN remove_file(f, default_file)
                   ELSE f
    IN  IF ~exists(f, dir)
        THEN [res |-> "VersionNotFound", val |-> version, fs |-> f]
        ELSE IF ~is_dir(cleared, dir)
        THEN [res |-> "Io", val |-> <<>>, fs |-> cleared]
        ELSE [res |-> "Ok", val |-> <<>>, fs |-> remove_dir_all(cleared, dir)]

----------------------------------------------------------------------------
(* The release catalog: list.rs list_available_versions *)

\* the most release tags one response of the release index carries.  The
\* program asks for pages of 100; the model keeps the page short.
MaxTags == 3

\* a release tag is "v", a version, "-" and a channel word.  The tags the
\* index may serve: two channels of one version, a later minor whose
\* number is longer, an earlier minor whose digit is higher, the same
\* version written with a leading zero, a two-component version, a tag of
\* another channel and a tag without the "v".
ReleaseTags ==
    { <<"v", "2", ".", "1", ".", "0", ".", "0", "-", "stable">>,
      <<"v", "2", ".", "1", ".", "0", ".", "0", "-", "lts">>,
      <<"v", "2", ".", "1", "0", ".", "0", ".", "0", "-", "stable">>,
      <<"v", "2", ".", "9", ".", "0", ".", "0", "-", "lts">>,
      <<"v", "0", "2", ".", "1", ".", "0", ".", "0", "-", "lts">>,
      <<"v", "2", ".", "1", "-", "stable">>,
      <<"v", "2", ".", "1", ".", "0", ".", "0", "-", "testing">>,
      <<"2", ".", "1", ".", "0", ".", "0", "-", "stable">> }

\* what the release index answers: a page of tags, or no usable answer
\* (the request fails, or the body is not a list of releases)
Responses ==
    { [ok |-> TRUE, tags |-> t] :
        t \in UNION { [1..n -> ReleaseTags] : n \in 0..MaxTags } }
    \cup { [ok |-> FALSE, tags |-> <<>>] }

\* str::starts_with, str::ends_with
starts_with(s, p) == Len(p) <= Len(s) /\ SubSeq(s, 1, Len(p)) = p

ends_with(s, p) ==
    Len(p) <= Len(s) /\ SubSeq(s, Len(s) - Len(p) + 1, Len(s)) = p

\* Option
None == [some |-> FALSE, val |-> <<>>]

Some(v) == [some |-> TRUE, val |-> v]

\* str::strip_prefix, str::strip_suffix
strip_prefix(s, p) ==
    IF starts_with(s, p) THEN Some(SubSeq(s, Len(p) + 1, Len(s))) ELSE None

strip_suffix(s, p) ==
    IF ends_with(s, p) THEN Some(SubSeq(s, 1, Len(s) - Len(p))) ELSE None

\* Iterator::find: the first element of s that satisfies the closure, I
\* being the positions of the elements that satisfy it
find(s, I) ==
    IF I = {} THEN None
    ELSE Some(s[CHOOSE i \in I : \A j \in I : i <= j])

\* VersionEntry { version, channel }
VersionEntry(version, channel) == [version |-> version, channel |-> channel]

\* a loop body that strips the suffix of a tag whether or not it starts
\* with "v"
parse_tag_any_prefix(tag) ==
    LET v       == strip_prefix(tag, <<"v">>)
        version == IF v.some THEN v.val ELSE tag
        stable  == strip_suffix(version, <<"-", "stable">>)
        lts     == strip_suffix(version, <<"-", "lts">>)
    IN  IF stable.some
        THEN Some([version |-> stable.val, suffix |-> <<"-", "stable">>])
        ELSE IF lts.some
             THEN Some([version |-> lts.val, suffix |-> <<"-", "lts">>])
             ELSE None

\* the body of the loop over the releases: the version a tag names and the
\* suffix that was stripped to get it, None for a tag that is passed over
parse_tag(tag) ==
    LET version == strip_prefix(tag, <<"v">>)
    IN  IF ~version.some THEN None
        ELSE LET stable == strip_suffix(version.val, <<"-", "stable">>)
                 lts    == strip_suffix(version.val, <<"-", "lts">>)
             IN  IF stable.some
                 THEN Some([version |-> stable.val, suffix |-> <<"-", "stable">>])
                 ELSE IF lts.some
                      THEN Some([version |-> lts.val, suffix |-> <<"-", "lts">>])
                      ELSE None

\* what is pushed for a tag that is kept.  The list.rs at hand pushes the
\* version alone, while resolve_version and list_available read a channel
\* from every entry; the channel is the one the release catalog is
\* described to record, the word of the suffix that was stripped.
entry_of_tag(p) == VersionEntry(p.version, Tail(p.suffix))

RECURSIVE parse_tags(_)
parse_tags(tags) ==
    IF tags = <<>> THEN <<>>
    ELSE LET p == parse_tag(Head(tags))
         IN  (IF p.some THEN <<entry_of_tag(p.val)>> ELSE <<>>)
                 \o parse_tags(Tail(tags))

\* where a sort that is not stable may put x: before the first element
\* that does not compare greater than it
RECURSIVE InsertEntryDescBeforeTies(_, _)
InsertEntryDescBeforeTies(sorted, x) ==
    IF sorted = <<>> THEN <<x>>
    ELSE IF compare_versions(Head(sorted).version, x.version) # "Greater"
         THEN <<x>> \o sorted
         ELSE <<Head(sorted)>> \o InsertEntryDescBeforeTies(Tail(sorted), x)

\* where a stable sort by |a, b| compare_versions(b, a) puts x into a sorted
\* list: before the first element that compares less than it
RECURSIVE InsertEntryDesc(_, _)
InsertEntryDesc(sorted, x) ==
    IF sorted = <<>> THEN <<x>>
    ELSE IF compare_versions(Head(sorted).version, x.version) = "Less"
         THEN <<x>> \o sorted
         ELSE <<Head(sorted)>> \o InsertEntryDesc(Tail(sorted), x)

\* versions.sort_by(|a, b| compare_versions(b, a)) on the entries' versions
RECURSIVE sort_entries_desc(_)
sort_entries_desc(s) ==
    IF s = <<>> THEN <<>>
    ELSE InsertEntryDesc(sort_entries_desc(SubSeq(s, 1, Len(s) - 1)), s[Len(s)])

\* list_available_versions that returns the entries in fetch order
list_available_versions_unsorted(response) ==
    IF ~response.ok
    THEN [res |-> "Http", list |-> <<>>]
    ELSE [res |-> "Ok", list |-> parse_tags(response.tags)]

\* list_available_versions: one request to the release index
list_available_versions(response) ==
    IF ~response.ok
    THEN [res |-> "Http", list |-> <<>>]
    ELSE [res |-> "Ok", list |-> sort_entries_desc(parse_tags(response.tags))]

----------------------------------------------------------------------------
(* The resolver: resolve.rs resolve_version *)

\* the specifiers the model draws from: the two channel words, partial
\* versions of one, two and three components, an exact version the index
\* may list, one it never lists, and a version of five components
Specifiers ==
    { <<"stable">>,
      <<"lts">>,
      <<"2">>,
      <<"2", ".", "1">>,
      <<"2", ".", "1", ".", "0">>,
      <<"2", ".", "1", ".", "0", ".", "0">>,
      <<"3", ".", "0", ".", "0", ".", "0">>,
      <<"2", ".", "1", ".", "0", ".", "0", ".", "0">> }

NoEntry == VersionEntry(<<>>, <<>>)

\* a resolver that answers a specifier nothing matches with the specifier
\* itself, as a stable version
ok_or_assume_stable(found, version_spec) ==
    IF found.some
    THEN [res |-> "Ok", val |-> <<>>, entry |-> found.val]
    ELSE [res |-> "Ok", val |-> <<>>,
          entry |-> VersionEntry(version_spec, <<"stable">>)]

\* Option::ok_or_else(|| Error::NoMatchingVersion(spec))
ok_or_no_match(found, version_spec) ==
    IF found.some
    THEN [res |-> "Ok", val |-> <<>>, entry |-> found.val]
    ELSE [res |-> "NoMatchingVersion", val |-> version_spec, entry |-> NoEntry]

\* an exact version that is taken for a stable one without a look at the
\* catalog
resolve_exact_stable(available, version_spec) ==
    [res |-> "Ok", val |-> <<>>,
     entry |-> VersionEntry(version_spec, <<"stable">>)]

\* the branch of a specifier of 4 components: the version is taken as
\* given, the channel from the catalog
resolve_exact(available, version_spec) ==
    LET e == find(available,
                  { i \in 1..Len(available) :
                      available[i].version = version_spec })
    IN  [res |-> "Ok", val |-> <<>>,
         entry |-> VersionEntry(version_spec,
                                IF e.some THEN e.val.channel ELSE <<"stable">>)]

\* the arms "stable" and "lts": the first entry of the channel
resolve_channel(available, channel, version_spec) ==
    ok_or_no_match(
        find(available,
             { i \in 1..Len(available) : available[i].channel = channel }),
        version_spec)

\* a partial match on the characters of the specifier alone
resolve_partial_char_prefix(available, partial) ==
    ok_or_no_match(
        find(available,
             { i \in 1..Len(available) :
                 starts_with(available[i].version, partial) }),
        partial)

\* the arm of every other specifier: the first entry whose version starts
\* with the specifier and a dot, or is the specifier
resolve_partial(available, partial) ==
    LET prefix == partial \o <<".">>
    IN  ok_or_no_match(
            find(available,
                 { i \in 1..Len(available) :
                     \/ starts_with(available[i].version, prefix)
                     \/ available[i].version = partial }),
            partial)

resolve_version(response, version_spec) ==
    LET fetched   == list_available_versions(response)
        available == fetched.list
    IN  IF fetched.res # "Ok"
        THEN [res |-> fetched.res, val |-> <<>>, entry |-> NoEntry]
        ELSE IF Len(split(version_spec, ".")) = 4
        THEN resolve_exact(available, version_spec)
        ELSE IF version_spec = <<"stable">>
        THEN resolve_channel(available, <<"stable">>, version_spec)
        ELSE IF version_spec = <<"lts">>
        THEN resolve_channel(available, <<"lts">>, version_spec)
        ELSE resolve_partial(available, version_spec)

----------------------------------------------------------------------------
(* Operations: one command at a time *)

Init ==
    /\ fs = <<>>
    /\ platform \in HostPlatforms
    /\ lastOp = NoOp
    /\ prevFs = <<>>
    /\ call = NoCall
    /\ ret = NoRet
    /\ procs = <<>>

\* chv which
GetDefault ==
    LET r == get_default_version(fs)
    IN  /\ lastOp' = Result("getDefault", <<>>, r.res, r.val)
        /\ prevFs' = fs
        /\ UNCHANGED <<fs, platform>>
        /\ UNCHANGED <<call, ret, procs>>

\* chv use <version>
SetDefault(version) ==
    LET r == set_default_version(fs, version)
    IN  /\ fs' = r.fs
        /\ lastOp' = Result("setDefault", version, r.res, r.val)
        /\ prevFs' = fs
        /\ UNCHANGED platform
        /\ UNCHANGED <<call, ret, procs>>

\* chv list
ListInstalled ==
    \E order \in Orders(read_dir(fs, versions_dir)) :
        /\ lastOp' = [Result("list", <<>>, "Ok", <<>>)
                        EXCEPT !.list = list_installed_versions(fs, order)]
        /\ prevFs' = fs
        /\ UNCHANGED <<fs, platform>>
        /\ UNCHANGED <<call, ret, procs>>

\* the ways a download that was started may go: the payload the host would
\* stream, where it fails, and how many chunks arrive before that
Outcomes ==
    { o \in [payload : Payloads, fail : FailPoints, got : 0..MaxChunks] :
        /\ o.got <= Len(o.payload)
        /\ o.fail = "write" => o.got < Len(o.payload)
        /\ o.fail \in {"none", "chmod"} => o.got = Len(o.payload)
        /\ o.fail \in {"transport", "status", "create"} =>
               o.payload = <<>> /\ o.got = 0 }

\* chv install, once the specifier is resolved
Install(version, channel) ==
    \E o \in IF exists(fs, version_dir(version)) \/ detect_platform(platform).res # "Ok"
             THEN {[payload |-> <<>>, fail |-> "none", got |-> 0]}
             ELSE Outcomes :
        /\ LET r == install_version(fs, platform, version, channel,
                                    o.payload, o.fail, o.got)
           IN  /\ fs' = r.fs
               /\ lastOp' = [Result("install", version, r.res, r.val)
                                EXCEPT !.again = /\ lastOp.op = "install"
                                                 /\ lastOp.arg = version
                                                 /\ lastOp.res = "Ok",
                                       !.recover = /\ lastOp.op = "remove"
                                                   /\ lastOp.arg = version
                                                   /\ lastOp.res = "Ok"
                                                   /\ lastOp.recover]
        /\ prevFs' = fs
        /\ UNCHANGED platform
        /\ UNCHANGED <<call, ret, procs>>

\* chv remove <version>
Remove(version) ==
    LET r == remove(fs, version)
    IN  /\ fs' = r.fs
        /\ lastOp' = [Result("remove", version, r.res, r.val)
                        EXCEPT !.recover =
                            /\ lastOp.op = "install"
                            /\ lastOp.arg = version
                            /\ lastOp.res \notin {"Ok", "VersionAlreadyInstalled"}
                            /\ ~exists(prevFs, version_dir(version))
                            /\ exists(fs, version_dir(version))]
        /\ prevFs' = fs
        /\ UNCHANGED platform
        /\ UNCHANGED <<call, ret, procs>>

Next ==
    \/ GetDefault
    \/ ListInstalled
    \/ \E v \in ArgStrings : SetDefault(v)
    \/ \E v \in ArgStrings, c \in Channels : Install(v, c)
    \/ \E v \in ArgStrings : Remove(v)

Spec == Init /\ [][Next]_vars

----------------------------------------------------------------------------
(* The functions that touch no file: one call at a time *)

\* the version strings the comparator is given: the dotted numbers of the
\* release scheme in several lengths, one with a leading zero, one with a
\* sign, ones with a component that is no number (a letter, nothing, a
\* number above u64::MAX), the largest number that parses, and strings
\* without any number
VersionStrings ==
    { <<"2", "5", ".", "2">>,
      <<"2", "5", ".", "1", "0">>,
      <<"2", "5", ".", "1", ".", "0", ".", "0">>,
      <<"2", "5", ".", "1">>,
      <<"2", "5">>,
      <<"0", "2", "5", ".", "1">>,
      <<"+", "2", "5", ".", "1">>,
      <<"2", "5", ".", "x", ".", "1">>,
      <<"2", "5", ".">>,
      U64Max,
      <<"1", "8", "4", "4", "6", "7", "4", "4", "0", "7",
        "3", "7", "0", "9", "5", "5", "1", "6", "1", "6">>,
      <<"x">>,
      <<>> }

\* the operating systems and architectures a build of the program may
\* report in std::env::consts: the ones that have a release binary and
\* one of each that has none
Platforms ==
    { <<os, arch>> : os \in {"macos", "linux", "windows"},
                     arch \in {"x86_64", "aarch64", "riscv64"} }

\* the calls the model draws from
Calls ==
    { [fn |-> "resolve", response |-> r, version_spec |-> s] :
        r \in Responses, s \in Specifiers }
    \cup { [fn |-> "list", response |-> r] : r \in Responses }
    \cup { [fn |-> "compare", a |-> a, b |-> b, c |-> c] :
             a \in VersionStrings, b \in VersionStrings, c \in VersionStrings }
    \cup { [fn |-> "url", plat |-> p, version |-> v, channel |-> c] :
             p \in Platforms, c \in Channels,
             v \in { <<"7">>, <<"2", "5", ".", "1", "2", ".", "5", ".", "4", "4">> } }
    \cup { [fn |-> "download", plat |-> p, version |-> <<"7">>, channel |-> c,
             payload |-> o.payload, fail |-> o.fail, got |-> o.got] :
             p \in HostPlatforms, c \in Channels,
             o \in { x \in Outcomes : x.fail # "chmod" } }

CallInit ==
    /\ fs = <<>>
    /\ platform = <<"linux", "x86_64">>
    /\ lastOp = NoOp
    /\ prevFs = <<>>
    /\ call \in Calls
    /\ ret = NoRet
    /\ procs = <<>>

\* chv install <spec>, up to the resolved entry
ResolveVersion ==
    /\ call.fn = "resolve"
    /\ ret = NoRet
    /\ ret' = resolve_version(call.response, call.version_spec)
    /\ UNCHANGED <<fs, platform, lastOp, prevFs, call, procs>>

\* chv list --available, up to the fetched catalog
ListAvailable ==
    /\ call.fn = "list"
    /\ ret = NoRet
    /\ ret' = list_available_versions(call.response)
    /\ UNCHANGED <<fs, platform, lastOp, prevFs, call, procs>>

\* the comparator on each pair of three strings, as a sort calls it
CompareVersions ==
    /\ call.fn = "compare"
    /\ ret = NoRet
    /\ ret' = [res |-> "Ok",
               ab |-> compare_versions(call.a, call.b),
               ba |-> compare_versions(call.b, call.a),
               bc |-> compare_versions(call.b, call.c),
               ac |-> compare_versions(call.a, call.c)]
    /\ UNCHANGED <<fs, platform, lastOp, prevFs, call, procs>>

\* the file system a download starts in: the version directory was made
DownloadFs(version) == create_dir_all(<<>>, version_dir(version))

\* the download of one binary into its version directory
DownloadVersion ==
    /\ call.fn = "download"
    /\ ret = NoRet
    /\ ret' = download_version(DownloadFs(call.version), call.plat,
                               call.version, call.channel,
                               binary_path(call.version),
                               call.payload, call.fail, call.got)
    /\ UNCHANGED <<fs, platform, lastOp, prevFs, call, procs>>

\* the address of one release binary
BuildDownloadUrl ==
    /\ call.fn = "url"
    /\ ret = NoRet
    /\ ret' = build_download_url(call.plat, call.version, call.channel)
    /\ UNCHANGED <<fs, platform, lastOp, prevFs, call, procs>>

CallNext ==
    \/ BuildDownloadUrl
    \/ ResolveVersion
    \/ ListAvailable
    \/ CompareVersions
    \/ DownloadVersion

CallSpec == CallInit /\ [][CallNext]_vars

----------------------------------------------------------------------------
(* One install, step by step *)

\* the chunks the release host may stream: told apart by content and length
Chunks == { <<"a">>, <<"b", "c">> }

\* the locals of a process that runs install_version: where it is, its
\* arguments, what it returned, the chunk in hand, the byte counter, the
\* position shown by the progress bar, the offset of its file handle, the
\* write its file handle has handed to the blocking pool and the error that
\* write left for the next operation on the handle; and, as history, the
\* chunks received in arrival order and the steps begun
InstallProc(version, channel) ==
    [fn |-> "install", pc |-> "ensure", version |-> version,
     channel |-> channel, res |-> "none", val |-> <<>>, chunk |-> <<>>,
     downloaded |-> 0, position |-> 0, offset |-> 0, busy |-> <<>>,
     last_write_err |-> FALSE, received |-> <<>>, steps |-> <<>>]

\* the process returns
Return(l, res, val) == [l EXCEPT !.pc = "done", !.res = res, !.val = val]

\* File::create that makes the new file executable from the start
file_create_executable(f, dest) == Put(f, dest.names, FileNode(<<>>, TRUE))

\* File::create: a new empty file, or the old one cut to nothing with its
\* mode kept
file_create(f, dest) ==
    IF exists(f, dest)
    THEN Put(f, dest.names, FileNode(<<>>, f[dest.names].exec))
    ELSE Put(f, dest.names, FileNode(<<>>, FALSE))

\* whether File::create can succeed: the parent is a directory and the
\* destination is not one
can_file_create(f, dest) ==
    /\ is_dir(f, [names |-> SubSeq(dest.names, 1, Len(dest.names) - 1),
                  dirOnly |-> FALSE])
    /\ ~is_dir(f, dest)

\* what a file holds after buf is written at offset: a gap is zero-filled
write_at(data, offset, buf) ==
    LET end == offset + Len(buf)
        n   == IF Len(data) > end THEN Len(data) ELSE end
    IN  [i \in 1..n |-> IF i > offset /\ i <= end THEN buf[i - offset]
                        ELSE IF i <= Len(data) THEN data[i]
                        ELSE "NUL"]

\* create_dir_all that fails when the directory is already there
create_version_dir_exclusive(f, version, dir) ==
    IF exists(f, dir)
    THEN [res |-> "VersionAlreadyInstalled", val |-> version, fs |-> f]
    ELSE IF ~can_create_dir_all(f, dir)
    THEN [res |-> "Io", val |-> <<>>, fs |-> f]
    ELSE [res |-> "Ok", val |-> <<>>, fs |-> create_dir_all(f, dir)]

\* install.rs: create the version directory
create_version_dir(f, version, dir) ==
    IF ~can_create_dir_all(f, dir)
    THEN [res |-> "Io", val |-> <<>>, fs |-> f]
    ELSE [res |-> "Ok", val |-> <<>>, fs |-> create_dir_all(f, dir)]

\* a step of process p that leaves everything but the file system and the
\* process alone
Step(p, f, l) ==
    /\ fs' = f
    /\ procs' = [procs EXCEPT ![p] = l]
    /\ UNCHANGED <<platform, lastOp, prevFs, call, ret>>

\* paths::ensure_dirs()?
EnsureDirs ==
    \E p \in DOMAIN procs :
        LET l == procs[p]
            e == ensure_dirs(fs)
        IN  /\ l.fn = "install" /\ l.pc = "ensure"
            /\ IF e.res # "Ok"
               THEN Step(p, fs, Return(l, "CreateDir", <<>>))
               ELSE Step(p, e.fs, [l EXCEPT !.pc = "check"])

\* if version_dir.exists() { return Err(VersionAlreadyInstalled) }
CheckInstalled ==
    \E p \in DOMAIN procs :
        LET l == procs[p]
        IN  /\ l.fn = "install" /\ l.pc = "check"
            /\ IF exists(fs, version_dir(l.version))
               THEN Step(p, fs, Return([l EXCEPT !.steps = @ \o <<"check">>],
                                       "VersionAlreadyInstalled", l.version))
               ELSE Step(p, fs, [l EXCEPT !.pc = "mkdir",
                                          !.steps = @ \o <<"check">>])

\* std::fs::create_dir_all(&version_dir)?
CreateVersionDir ==
    \E p \in DOMAIN procs :
        LET l == procs[p]
            c == create_version_dir(fs, l.version, version_dir(l.version))
            m == [l EXCEPT !.steps = @ \o <<"mkdir">>]
        IN  /\ l.fn = "install" /\ l.pc = "mkdir"
            /\ IF c.res # "Ok"
               THEN Step(p, c.fs, Return(m, c.res, c.val))
               ELSE Step(p, c.fs, [m EXCEPT !.pc = "request"])

\* download_version: build the address, send the request, look at the status
SendRequest ==
    \E p \in DOMAIN procs, answer \in {"ok", "transport", "status"} :
        LET l   == procs[p]
            url == build_download_url(platform, l.version, l.channel)
            m   == [l EXCEPT !.steps = @ \o <<"download">>]
        IN  /\ l.fn = "install" /\ l.pc = "request"
            /\ IF url.res # "Ok"
               THEN /\ answer = "ok"
                    /\ Step(p, fs, Return(m, url.res, url.val))
               ELSE IF answer = "transport"
               THEN Step(p, fs, Return(m, "Http", <<>>))
               ELSE IF answer = "status"
               THEN Step(p, fs, Return(m, "Download",
                                       <<"Failed to download ">> \o url.val
                                       \o <<": ", "status">>))
               ELSE Step(p, fs, [m EXCEPT !.pc = "create"])

\* tokio::fs::File::create(dest_path).await?, downloaded = 0
CreateFile ==
    \E p \in DOMAIN procs, ok \in BOOLEAN :
        LET l    == procs[p]
            dest == binary_path(l.version)
        IN  /\ l.fn = "install" /\ l.pc = "create"
            /\ IF ~ok \/ ~can_file_create(fs, dest)
               THEN Step(p, fs, Return(l, "Io", <<>>))
               ELSE Step(p, file_create(fs, dest),
                         [l EXCEPT !.pc = "next", !.downloaded = 0,
                                   !.offset = 0])

\* stream.next().await, chunk?: the body ends, the transfer fails, or one
\* more chunk arrives
StreamNext ==
    \E p \in DOMAIN procs, item \in {<<"end">>, <<"error">>} \cup Chunks :
        LET l == procs[p]
        IN  /\ l.fn = "install" /\ l.pc = "next"
            /\ IF item = <<"end">>
               THEN Step(p, fs, [l EXCEPT !.pc = "finish"])
               ELSE IF item = <<"error">>
               THEN Step(p, fs, Return(l, "Http", <<>>))
               ELSE /\ Len(l.received) < MaxChunks
                    /\ Step(p, fs, [l EXCEPT !.pc = "write", !.chunk = item,
                                             !.received = Append(@, item)])

\* file.write_all(&chunk).await?: waits for the write before it, returns
\* the error that one left, and hands the chunk to the blocking pool
WriteAll ==
    \E p \in DOMAIN procs :
        LET l == procs[p]
        IN  /\ l.fn = "install" /\ l.pc = "write"
            /\ l.busy = <<>>
            /\ IF l.last_write_err
               THEN Step(p, fs, Return([l EXCEPT !.last_write_err = FALSE],
                                       "Io", <<>>))
               ELSE Step(p, fs, [l EXCEPT !.pc = "count",
                                          !.busy = <<l.chunk>>])

\* the blocking pool runs the write it was handed: the chunk reaches the
\* file at the handle's offset, or the write fails and leaves its error
BlockingWrite ==
    \E p \in DOMAIN procs, ok \in BOOLEAN :
        LET l    == procs[p]
            dest == binary_path(l.version)
            buf  == l.busy[1]
        IN  /\ l.fn = "install" /\ l.busy # <<>>
            /\ IF ~ok
               THEN Step(p, fs, [l EXCEPT !.busy = <<>>,
                                          !.last_write_err = TRUE])
               ELSE Step(p,
                         IF dest.names \in DOMAIN fs
                         THEN Put(fs, dest.names,
                                  [fs[dest.names] EXCEPT
                                     !.data = write_at(@, l.offset, buf)])
                         ELSE fs,
                         [l EXCEPT !.busy = <<>>,
                                   !.offset = @ + Len(buf)])

\* downloaded += chunk.len(), pb.set_position(downloaded)
AddDownloaded ==
    \E p \in DOMAIN procs :
        LET l == procs[p]
        IN  /\ l.fn = "install" /\ l.pc = "count"
            /\ Step(p, fs, [l EXCEPT !.pc = "next",
                                     !.downloaded = @ + Len(l.chunk),
                                     !.position = l.downloaded + Len(l.chunk)])

\* pb.finish_with_message("Download complete"), Ok(())
Finish ==
    \E p \in DOMAIN procs :
        LET l == procs[p]
        IN  /\ l.fn = "install" /\ l.pc = "finish"
            /\ Step(p, fs, [l EXCEPT !.pc = "chmod"])

\* metadata(&binary_path)?, set_mode(0o755), set_permissions(..)?, Ok(())
SetPermissions ==
    \E p \in DOMAIN procs, ok \in BOOLEAN :
        LET l    == procs[p]
            dest == binary_path(l.version)
            m    == [l EXCEPT !.steps = @ \o <<"chmod">>]
        IN  /\ l.fn = "install" /\ l.pc = "chmod"
            /\ IF ~ok \/ ~exists(fs, dest)
               THEN Step(p, fs, Return(m, "Io", <<>>))
               ELSE Step(p, Put(fs, dest.names,
                                [fs[dest.names] EXCEPT !.exec = TRUE]),
                         Return(m, "Ok", <<>>))

InstallNext ==
    \/ EnsureDirs
    \/ CheckInstalled
    \/ CreateVersionDir
    \/ SendRequest
    \/ CreateFile
    \/ StreamNext
    \/ WriteAll
    \/ BlockingWrite
    \/ AddDownloaded
    \/ Finish
    \/ SetPermissions

\* the registries one install may start from: empty, or with the version
\* there
InstallRegistries ==
    { <<>>,
      install_version(<<>>, <<"linux", "x86_64">>, <<"7">>, <<"stable">>,
                      << <<"x">> >>, "none", 1).fs }

\* chv install 7 on its own
InstallInit ==
    /\ fs \in InstallRegistries
    /\ platform \in HostPlatforms
    /\ lastOp = NoOp
    /\ prevFs = <<>>
    /\ call = NoCall
    /\ ret = NoRet
    /\ procs \in { <<InstallProc(<<"7">>, c)>> : c \in Channels }

InstallSpec == InstallInit /\ [][InstallNext]_vars

----------------------------------------------------------------------------
(* Two installs of one version at once *)

\* chv install 7, twice at the same time, nothing shared but the registry
RaceInit ==
    /\ fs = <<>>
    /\ platform = <<"linux", "x86_64">>
    /\ lastOp = NoOp
    /\ prevFs = <<>>
    /\ call = NoCall
    /\ ret = NoRet
    /\ procs = <<InstallProc(<<"7">>, <<"stable">>),
                 InstallProc(<<"7">>, <<"stable">>)>>

RaceSpec == RaceInit /\ [][InstallNext]_vars

----------------------------------------------------------------------------
(* A remove and a set default of one version at once *)

\* the locals of a process that runs remove: where it is, its argument,
\* what it returned and what get_default_version told it
RemoveProc(version) ==
    [fn |-> "remove", pc |-> "check", version |-> version, res |-> "none",
     val |-> <<>>, default |-> [res |-> "none", val |-> <<>>]]

\* the locals of a process that runs use_version
UseProc(version) ==
    [fn |-> "use", pc |-> "check", version |-> version, res |-> "none",
     val |-> <<>>]

\* remove: if !version_dir.exists() { return Err(VersionNotFound) }
RemoveCheck ==
    \E p \in DOMAIN procs :
        LET l == procs[p]
        IN  /\ l.fn = "remove" /\ l.pc = "check"
            /\ IF ~exists(fs, version_dir(l.version))
               THEN Step(p, fs, Return(l, "VersionNotFound", l.version))
               ELSE Step(p, fs, [l EXCEPT !.pc = "default"])

\* remove: version_manager::get_default_version()
RemoveGetDefault ==
    \E p \in DOMAIN procs :
        LET l == procs[p]
        IN  /\ l.fn = "remove" /\ l.pc = "default"
            /\ Step(p, fs, [l EXCEPT !.pc = "clear",
                                     !.default = get_default_version(fs)])

\* remove: if default == version { let _ = remove_file(default_file) }
RemoveClearDefault ==
    \E p \in DOMAIN procs :
        LET l == procs[p]
        IN  /\ l.fn = "remove" /\ l.pc = "clear"
            /\ IF l.default.res = "Ok" /\ l.default.val = l.version
               THEN Step(p, remove_file(fs, default_file),
                         [l EXCEPT !.pc = "delete"])
               ELSE Step(p, fs, [l EXCEPT !.pc = "delete"])

\* remove: std::fs::remove_dir_all(&version_dir)?
RemoveDirAll ==
    \E p \in DOMAIN procs :
        LET l   == procs[p]
            dir == version_dir(l.version)
        IN  /\ l.fn = "remove" /\ l.pc = "delete"
            /\ IF ~is_dir(fs, dir)
               THEN Step(p, fs, Return(l, "Io", <<>>))
               ELSE Step(p, remove_dir_all(fs, dir), Return(l, "Ok", <<>>))

\* set_default_version: if !binary.exists() { return Err(VersionNotFound) }
UseCheck ==
    \E p \in DOMAIN procs :
        LET l == procs[p]
        IN  /\ l.fn = "use" /\ l.pc = "check"
            /\ IF ~exists(fs, binary_path(l.version))
               THEN Step(p, fs, Return(l, "VersionNotFound", l.version))
               ELSE Step(p, fs, [l EXCEPT !.pc = "write"])

\* set_default_version: std::fs::write(&default_file, version)?
UseWrite ==
    \E p \in DOMAIN procs :
        LET l == procs[p]
        IN  /\ l.fn = "use" /\ l.pc = "write"
            /\ IF ~is_dir(fs, base_dir) \/ is_dir(fs, default_file)
               THEN Step(p, fs, Return(l, "Io", <<>>))
               ELSE Step(p, Put(fs, default_file.names,
                                FileNode(l.version, FALSE)),
                         Return(l, "Ok", <<>>))

PointerNext ==
    \/ RemoveCheck
    \/ RemoveGetDefault
    \/ RemoveClearDefault
    \/ RemoveDirAll
    \/ UseCheck
    \/ UseWrite

\* the versions the two commands are run on
RaceVersions == { <<"7">>, <<"8">> }

\* the registry after the versions of a set were installed, in any order
Installed(versions) ==
    [n \in UNION { DOMAIN install_version(<<>>, <<"linux", "x86_64">>, v,
                                          <<"stable">>, << <<"x">> >>,
                                          "none", 1).fs : v \in versions }
           \cup DOMAIN ensure_dirs(<<>>).fs |->
        IF Len(n) = 3 THEN FileNode(<<"x">>, TRUE) ELSE DirNode]

\* the registries the two commands may start from: some of the versions
\* installed, and no default or one of them the default
PointerRegistries ==
    { Installed(vs) : vs \in SUBSET RaceVersions }
    \cup { set_default_version(Installed(vs), d).fs :
             vs \in SUBSET RaceVersions, d \in RaceVersions }

\* chv remove v and chv use v at the same time
PointerInit ==
    /\ fs \in PointerRegistries
    /\ platform = <<"linux", "x86_64">>
    /\ lastOp = NoOp
    /\ prevFs = <<>>
    /\ call = NoCall
    /\ ret = NoRet
    /\ procs \in { <<RemoveProc(v), UseProc(v)>> : v \in RaceVersions }

PointerSpec == PointerInit /\ [][PointerNext]_vars

----------------------------------------------------------------------------
(* Properties *)

\* the default pointer file: absent, or its text
pointer_text(f) ==
    IF exists(f, default_file) THEN <<f[default_file.names].data>> ELSE <<>>

Range(s) == { s[i] : i \in 1..Len(s) }

\* the directories right below versions/ that hold an entry named clickhouse
InstalledDirs(f) ==
    { m[2] : m \in { n \in DOMAIN f :
                       /\ Len(n) = 2
                       /\ n[1] = <<"versions">>
                       /\ f[n].kind = "dir"
                       /\ (n \o << <<"clickhouse">> >>) \in DOMAIN f } }

\* the directories right below versions/ that hold nothing named clickhouse
BareDirs(f) ==
    { m[2] : m \in { n \in DOMAIN f :
                       /\ Len(n) = 2
                       /\ n[1] = <<"versions">>
                       /\ f[n].kind = "dir"
                       /\ (n \o << <<"clickhouse">> >>) \notin DOMAIN f } }

\* C1: whenever the default pointer file exists and is not empty, the binary
\* of the version it names exists
C1_PointerNeverDangles ==
    \A text \in Range(pointer_text(fs)) :
        text # <<>> => exists(fs, binary_path(text))

\* C2: setDefault(v) with v's binary present succeeds, leaves v as the text
\* of the pointer file, and getDefault() right after it returns v
C2_SetThenGet ==
    (lastOp.op = "setDefault" /\ exists(prevFs, binary_path(lastOp.arg))) =>
        /\ lastOp.res = "Ok"
        /\ pointer_text(fs) = <<lastOp.arg>>
        /\ get_default_version(fs) = [res |-> "Ok", val |-> lastOp.arg]

\* C3: setDefault(v) fails with VersionNotFound(v) whenever v's binary does
\* not exist, a bare directory included, and then leaves the pointer file,
\* and everything else, as it was
C3_SetDefaultMissing ==
    (lastOp.op = "setDefault" /\ ~exists(prevFs, binary_path(lastOp.arg))) =>
        /\ lastOp.res = "VersionNotFound"
        /\ lastOp.val = lastOp.arg
        /\ pointer_text(fs) = pointer_text(prevFs)
        /\ fs = prevFs

\* C3 happens: setDefault of a version whose directory is there without a
\* binary was refused while a pointer file existed
C3_Witness ==
    /\ lastOp.op = "setDefault"
    /\ lastOp.res = "VersionNotFound"
    /\ is_dir(prevFs, version_dir(lastOp.arg))
    /\ lastOp.arg \in BareDirs(prevFs)
    /\ exists(fs, default_file)

\* C4: getDefault() fails with NoDefaultVersion exactly when the pointer file
\* is absent or its text is empty once white space is trimmed
C4_NoDefaultExactly ==
    lastOp.op = "getDefault" =>
        (lastOp.res = "NoDefaultVersion"
            <=> \A text \in Range(pointer_text(fs)) : trim(text) = <<>>)

\* C4 happens: getDefault() reported NoDefaultVersion for a pointer file
\* that exists and holds only white space
C4_Witness ==
    /\ lastOp.op = "getDefault"
    /\ lastOp.res = "NoDefaultVersion"
    /\ \E text \in Range(pointer_text(fs)) : text # <<>>

\* C5: getDefault() with a pointer that names a version whose binary does not
\* exist fails with VersionNotFound(version)
C5_DanglingIsNotFound ==
    \A text \in Range(pointer_text(fs)) :
        (/\ lastOp.op = "getDefault"
         /\ trim(text) # <<>>
         /\ ~exists(fs, binary_path(trim(text)))) =>
            /\ lastOp.res = "VersionNotFound"
            /\ lastOp.val = trim(text)

\* C5 happens: getDefault() ran on a pointer whose version has no binary
C5_Witness ==
    /\ lastOp.op = "getDefault"
    /\ \E text \in Range(pointer_text(fs)) :
           trim(text) # <<>> /\ ~exists(fs, binary_path(trim(text)))

\* C6: after remove(v) succeeds where getDefault() returned v before it, the
\* pointer is cleared and getDefault() returns NoDefaultVersion
C6_RemoveDefaultClears ==
    (/\ lastOp.op = "remove"
     /\ lastOp.res = "Ok"
     /\ get_default_version(prevFs) = [res |-> "Ok", val |-> lastOp.arg]) =>
        /\ pointer_text(fs) = <<>>
        /\ get_default_version(fs).res = "NoDefaultVersion"

\* C6 happens: the version that was the default has been removed
C6_Witness ==
    /\ lastOp.op = "remove"
    /\ lastOp.res = "Ok"
    /\ get_default_version(prevFs) = [res |-> "Ok", val |-> lastOp.arg]
    /\ lastOp.arg \in InstalledDirs(prevFs)

\* C7: remove(v) fails with VersionNotFound exactly when v's directory does
\* not exist, and then changes nothing; when it succeeds the directory and
\* its binary are gone, and the pointer is gone if v was the default, which
\* is decided on the state before the directory is deleted
C7_Remove ==
    lastOp.op = "remove" =>
        /\ (lastOp.res = "VersionNotFound"
               <=> ~exists(prevFs, version_dir(lastOp.arg)))
        /\ lastOp.res = "VersionNotFound" =>
               lastOp.val = lastOp.arg /\ fs = prevFs
        /\ lastOp.res = "Ok" =>
               /\ ~exists(fs, version_dir(lastOp.arg))
               /\ ~exists(fs, binary_path(lastOp.arg))
               /\ pointer_text(fs) =
                      IF get_default_version(prevFs)
                             = [res |-> "Ok", val |-> lastOp.arg]
                      THEN <<>>
                      ELSE pointer_text(prevFs)

\* C7 happens: a remove succeeded on the default version, whose directory
\* held a binary, and a remove of a missing directory is possible next
C7_Witness ==
    /\ lastOp.op = "remove"
    /\ lastOp.res = "Ok"
    /\ exists(prevFs, binary_path(lastOp.arg))
    /\ exists(prevFs, default_file)
    /\ ~exists(fs, default_file)

\* C8: an install(v) that directly follows a successful install(v) fails
\* with VersionAlreadyInstalled(v) and changes nothing on disk
C8_InstallTwice ==
    (lastOp.op = "install" /\ lastOp.again) =>
        /\ lastOp.res = "VersionAlreadyInstalled"
        /\ lastOp.val = lastOp.arg
        /\ fs = prevFs

\* C8 happens: the second of two installs in a row was refused, with the
\* binary of the first in place, executable, and a default pointer set
C8_Witness ==
    /\ lastOp.op = "install"
    /\ lastOp.again
    /\ lastOp.res = "VersionAlreadyInstalled"
    /\ exists(fs, binary_path(lastOp.arg))
    /\ fs[binary_path(lastOp.arg).names].exec
    /\ exists(fs, default_file)

\* an install that got as far as creating the version directory and failed
FailedAfterCreate ==
    /\ lastOp.op = "install"
    /\ lastOp.res \in {"UnsupportedPlatform", "Http", "Download", "Io"}
    /\ ~exists(prevFs, version_dir(lastOp.arg))

\* C9: a failed install leaves the version directory behind; an install of
\* a version whose directory exists fails with VersionAlreadyInstalled; and
\* a directory that exists stays until a remove succeeds
C9_FailedInstallBlocks ==
    /\ FailedAfterCreate => is_dir(fs, version_dir(lastOp.arg))
    /\ (lastOp.op = "install" /\ exists(prevFs, version_dir(lastOp.arg))) =>
           lastOp.res = "VersionAlreadyInstalled" /\ lastOp.val = lastOp.arg
    /\ \A v \in ArgStrings :
           (/\ exists(prevFs, version_dir(v))
            /\ ~(lastOp.op = "remove" /\ lastOp.res = "Ok")) =>
               exists(fs, version_dir(v))

\* C9 happens: an install was refused for a version directory that holds
\* no binary
C9_Witness ==
    /\ lastOp.op = "install"
    /\ lastOp.res = "VersionAlreadyInstalled"
    /\ Len(version_dir(lastOp.arg).names) = 2
    /\ ~exists(fs, binary_path(lastOp.arg))

\* C10: listInstalled() returns, without error and each once, exactly the
\* directories right below versions/ that hold a binary, and nothing when
\* versions/ does not exist
C10_ListInstalled ==
    lastOp.op = "list" =>
        /\ lastOp.res = "Ok"
        /\ Range(lastOp.list) = InstalledDirs(fs)
        /\ Len(lastOp.list) = Cardinality(InstalledDirs(fs))
        /\ ~exists(fs, versions_dir) => lastOp.list = <<>>

\* C10 happens: a list came back with an installed version while another
\* directory without a binary was left out
C10_Witness ==
    /\ lastOp.op = "list"
    /\ lastOp.list # <<>>
    /\ BareDirs(fs) # {}

\* C11: `use v` installs v when it is not installed and then makes it the
\* default: after `use v` on a machine where v is not installed, v is
\* installed and getDefault() returns v.
\* use_version only calls set_default_version, which refuses a version that
\* is not installed, so this fails for every such v.  The case is kept to a
\* version name that is not blank, on a host that has a release binary.
C11_UseAutoInstalls ==
    (/\ lastOp.op = "setDefault"
     /\ trim(lastOp.arg) # <<>>
     /\ detect_platform(platform).res = "Ok"
     /\ ~exists(prevFs, binary_path(lastOp.arg))) =>
        /\ lastOp.res = "Ok"
        /\ exists(fs, binary_path(lastOp.arg))
        /\ get_default_version(fs) = [res |-> "Ok", val |-> lastOp.arg]

\* the catalog that the response of the call parses to
catalog == list_available_versions(call.response).list

\* a resolve call has returned after the release index answered
Resolved == call.fn = "resolve" /\ ret # NoRet /\ call.response.ok

\* the number of dots in a string
Dots(s) == Cardinality({ i \in 1..Len(s) : s[i] = "." })

\* the least index of a non-empty set of indices
First(I) == CHOOSE i \in I : \A j \in I : i <= j

C13_ChannelSpecifier ==
    (Resolved /\ call.version_spec \in Channels) =>
        LET I == { i \in 1..Len(catalog) :
                     catalog[i].channel = call.version_spec }
        IN  I # {} =>
                /\ ret.res = "Ok"
                /\ ret.entry = catalog[First(I)]
                /\ \A j \in I :
                       compare_versions(catalog[j].version,
                                        ret.entry.version) # "Greater"

\* C13 happens: "stable" resolved to an entry that is newer than a stable
\* release the index listed before it
C13_Witness ==
    /\ Resolved
    /\ call.version_spec = <<"stable">>
    /\ ret.res = "Ok"
    /\ LET fetched == parse_tags(call.response.tags)
       IN  \E i, j \in 1..Len(fetched) :
               /\ i < j
               /\ fetched[i].channel = <<"stable">>
               /\ fetched[j] = ret.entry
               /\ compare_versions(fetched[i].version,
                                   fetched[j].version) = "Less"

\* the dot-separated components of s are the leading components of v
ComponentPrefix(s, v) ==
    LET cs == split(s, ".")
        cv == split(v, ".")
    IN  Len(cs) <= Len(cv) /\ SubSeq(cv, 1, Len(cs)) = cs

\* a specifier that is neither a channel word nor an exact version
Partial(s) == s \notin Channels /\ Dots(s) # 3

\* C14: a partial specifier s resolves to the first catalog entry whose
\* version is s or starts with s and a dot, that is, whose leading
\* components are the components of s; a version that only shares
\* characters with s across a component boundary (2.10.0.0 for s = 2.1)
\* never matches.
C14_PartialSpecifier ==
    (Resolved /\ Partial(call.version_spec)) =>
        LET s == call.version_spec
            I == { i \in 1..Len(catalog) :
                     \/ catalog[i].version = s
                     \/ /\ Len(catalog[i].version) > Len(s)
                        /\ SubSeq(catalog[i].version, 1, Len(s) + 1) = s \o <<".">> }
        IN  /\ I # {} => ret.res = "Ok" /\ ret.entry = catalog[First(I)]
            /\ ret.res = "Ok" => ComponentPrefix(s, ret.entry.version)
            /\ (ret.res = "Ok" /\ s = <<"2", ".", "1">>) =>
                   ret.entry.version # <<"2", ".", "1", "0", ".", "0", ".", "0">>

\* C14 happens: 2.1 resolved to 2.1.0.0 although the newest entry of the
\* catalog is 2.10.0.0
C14_Witness ==
    /\ Resolved
    /\ call.version_spec = <<"2", ".", "1">>
    /\ catalog # <<>>
    /\ catalog[1].version = <<"2", ".", "1", "0", ".", "0", ".", "0">>
    /\ ret.res = "Ok"
    /\ ret.entry.version = <<"2", ".", "1", ".", "0", ".", "0">>

\* entry e of the catalog is one that specifier s asks for
Matches(s, e) ==
    IF s \in Channels THEN e.channel = s ELSE ComponentPrefix(s, e.version)

\* C15: for a specifier that is no exact version, resolve fails with
\* NoMatchingVersion(spec) when no entry of the catalog matches it (no
\* entry of the channel for a channel word, no entry with the prefix for a
\* partial version), and what a successful resolve returns is an entry of
\* the fetched catalog.
C15_NoMatchingVersion ==
    (Resolved /\ Dots(call.version_spec) # 3) =>
        LET s == call.version_spec
            none == \A i \in 1..Len(catalog) : ~Matches(s, catalog[i])
        IN  /\ ret.res \in {"Ok", "NoMatchingVersion"}
            /\ none => ret.res = "NoMatchingVersion" /\ ret.val = s
            /\ ret.res = "NoMatchingVersion" => none
            /\ ret.res = "Ok" => ret.entry \in Range(catalog)

\* C15 happens: lts was asked for and the catalog, which is not empty,
\* has stable entries only
C15_Witness ==
    /\ Resolved
    /\ call.version_spec = <<"lts">>
    /\ catalog # <<>>
    /\ ret.res = "NoMatchingVersion"
    /\ ret.val = <<"lts">>

\* a compare call has returned
Compared == call.fn = "compare" /\ ret # NoRet

\* Ordering::reverse
Reverse(o) ==
    CASE o = "Less" -> "Greater" [] o = "Greater" -> "Less" [] o = "Equal" -> "Equal"

\* total, transitive, and each result the reverse of the swapped one
PreorderLaws ==
    /\ { ret.ab, ret.ba, ret.bc, ret.ac } \subseteq { "Less", "Equal", "Greater" }
    /\ ret.ab # "Greater" \/ ret.ba # "Greater"
    /\ (ret.ab # "Greater" /\ ret.bc # "Greater") => ret.ac # "Greater"
    /\ (ret.ab = "Equal" /\ ret.bc = "Equal") => ret.ac = "Equal"
    /\ (ret.ab = "Less" /\ ret.bc # "Greater") => ret.ac = "Less"
    /\ ret.ba = Reverse(ret.ab)

\* C16 as stated: the comparator is a total order over strings: total,
\* transitive, compare(a,b) the reverse of compare(b,a), and Equal only for
\* one and the same string.  The last part fails: 25.1 and 025.1, or 25.1
\* and 25.x.1, are different strings that compare Equal.
C16_TotalOrder ==
    Compared =>
        /\ PreorderLaws
        /\ ret.ab = "Equal" => call.a = call.b

\* C16, amended: the comparator is a total preorder over strings: total,
\* transitive, compare(a,b) the reverse of compare(b,a), and Equal exactly
\* when both strings have the same sequence of numeric components.
C16_TotalPreorder ==
    Compared =>
        /\ PreorderLaws
        /\ ret.ab = "Equal" <=> version_parts(call.a) = version_parts(call.b)

\* C16 happens: three different strings compared, the first two Equal and
\* the third above both
C16_Witness ==
    /\ Compared
    /\ call.a # call.b
    /\ ret.ab = "Equal"
    /\ ret.bc = "Less"
    /\ ret.ac = "Less"

\* the digits of a number, zeros put in front up to n digits
Pad(x, n) ==
    [i \in 1..n |-> IF i <= n - Len(x) THEN "0" ELSE x[i - (n - Len(x))]]

\* x < y for numbers written in decimal digits: at the first position
\* where they differ, both written with as many digits, x has the lower
NumLess(x, y) ==
    LET n  == IF Len(x) < Len(y) THEN Len(y) ELSE Len(x)
        px == Pad(x, n)
        py == Pad(y, n)
    IN  \E i \in 1..n :
            /\ DigitVal(px[i]) < DigitVal(py[i])
            /\ \A j \in 1..(i - 1) : px[j] = py[j]

\* C17: the comparator compares the numeric components as numbers, the
\* first unequal pair deciding (25.2 < 25.10); when one sequence of numeric
\* components is a strict prefix of the other, the shorter is the lesser
\* (25.1.0.0 > 25.1).
C17_NumericThenLength ==
    Compared =>
        LET x == version_parts(call.a)
            y == version_parts(call.b)
            n == IF Len(x) < Len(y) THEN Len(x) ELSE Len(y)
            D == { i \in 1..n : x[i] # y[i] }
        IN  /\ D # {} =>
                   ret.ab = IF NumLess(x[First(D)], y[First(D)])
                            THEN "Less" ELSE "Greater"
            /\ (D = {} /\ Len(x) < Len(y)) => ret.ab = "Less"
            /\ (D = {} /\ Len(x) > Len(y)) => ret.ab = "Greater"
            /\ (call.a = <<"2", "5", ".", "2">>
                  /\ call.b = <<"2", "5", ".", "1", "0">>) => ret.ab = "Less"
            /\ (call.a = <<"2", "5", ".", "1", ".", "0", ".", "0">>
                  /\ call.b = <<"2", "5", ".", "1">>) => ret.ab = "Greater"

\* C17 happens: 25.2 was compared with 25.10, and 25.10 with 25.1.0.0
C17_Witness ==
    /\ Compared
    /\ call.a = <<"2", "5", ".", "2">>
    /\ call.b = <<"2", "5", ".", "1", "0">>
    /\ call.c = <<"2", "5", ".", "1", ".", "0", ".", "0">>
    /\ ret.ab = "Less"
    /\ ret.bc = "Greater"

\* the pieces put together again, sep between them
RECURSIVE Join(_, _)
Join(ps, sep) ==
    IF ps = <<>> THEN <<>>
    ELSE IF Len(ps) = 1 THEN Head(ps)
    ELSE Head(ps) \o <<sep>> \o Join(Tail(ps), sep)

\* string s with component x put in after its first i components
InsertComponent(s, i, x) ==
    LET ps == split(s, ".")
    IN  Join(SubSeq(ps, 1, i) \o <<x>> \o SubSeq(ps, i + 1, Len(ps)), ".")

\* string s without its i-th component
DeleteComponent(s, i) ==
    LET ps == split(s, ".")
    IN  Join(SubSeq(ps, 1, i - 1) \o SubSeq(ps, i + 1, Len(ps)), ".")

\* components that are no unsigned integer: a letter, nothing, a digit
\* and a letter, a negative number, and 2^64
NonNumbers ==
    { <<"x">>, <<>>, <<"1", "x">>, <<"-", "1">>,
      <<"1", "8", "4", "4", "6", "7", "4", "4", "0", "7",
        "3", "7", "0", "9", "5", "5", "1", "6", "1", "6">> }

\* C18: the result of the comparator depends only on the components that
\* parse as unsigned integers.  A component that does not parse is dropped
\* and is no error: putting such a component into an argument, or taking
\* one out, leaves the result as it was.
C18_NonNumericIgnored ==
    Compared =>
        LET n == Len(split(call.a, "."))
        IN  /\ ret.res = "Ok"
            /\ \A i \in 0..n, x \in NonNumbers :
                   LET a2 == InsertComponent(call.a, i, x)
                   IN  /\ compare_versions(a2, call.b) = ret.ab
                       /\ compare_versions(call.b, a2) = ret.ba
            /\ \A i \in 1..n :
                   split(call.a, ".")[i] \in NonNumbers =>
                       LET a2 == DeleteComponent(call.a, i)
                       IN  /\ compare_versions(a2, call.b) = ret.ab
                           /\ compare_versions(call.b, a2) = ret.ba

\* C18 happens: 25.x.1, which has a component that is no number between
\* two that are, compared Equal to 25.1 and Greater than 25
C18_Witness ==
    /\ Compared
    /\ call.a = <<"2", "5", ".", "x", ".", "1">>
    /\ call.b = <<"2", "5", ".", "1">>
    /\ call.c = <<"2", "5">>
    /\ ret.ab = "Equal"
    /\ ret.ac = "Greater"

\* a list call has returned after the release index answered
Listed == call.fn = "list" /\ ret # NoRet /\ call.response.ok

\* the tag that names an entry: "v", the version, "-", the channel
TagOf(e) == <<"v">> \o e.version \o <<"-">> \o e.channel

\* tag t reads v<version>-stable or v<version>-lts
ChannelTag(t) ==
    /\ Len(t) >= 3
    /\ t[1] = "v"
    /\ t[Len(t) - 1] = "-"
    /\ <<t[Len(t)]>> \in Channels

\* how often x occurs in sequence s
Count(s, x) == Cardinality({ i \in 1..Len(s) : s[i] = x })

Ties(s, e) ==
    SelectSeq(s, LAMBDA x : compare_versions(x.version, e.version) = "Equal")

\* C20: the catalog is sorted newest first under the comparator: no entry
\* is followed by one that the comparator orders strictly above it; and
\* entries whose versions compare Equal are in the order they were fetched.
C20_SortedStable ==
    Listed =>
        LET fetched == parse_tags(call.response.tags)
        IN  /\ \A i, j \in 1..Len(ret.list) :
                   i < j => compare_versions(ret.list[i].version,
                                             ret.list[j].version) # "Less"
            /\ \A e \in Range(fetched) : Ties(ret.list, e) = Ties(fetched, e)
            /\ Len(ret.list) = Len(fetched)

\* C20 happens: the sort moved a newer entry to the front of two entries
\* that differ and compare Equal, which kept their fetch order
C20_Witness ==
    /\ Listed
    /\ Len(ret.list) = 3
    /\ ret.list # parse_tags(call.response.tags)
    /\ ret.list[2] # ret.list[3]
    /\ compare_versions(ret.list[2].version, ret.list[3].version) = "Equal"
    /\ compare_versions(ret.list[1].version, ret.list[2].version) = "Greater"

\* a dotted string of exactly 4 components, each one or more digits
FourNumeric(v) ==
    LET cs == split(v, ".")
    IN  /\ Len(cs) = 4
        /\ \A i \in 1..4 :
               cs[i] # <<>> /\ \A k \in 1..Len(cs[i]) : cs[i][k] \in Digits

\* C21: every entry of the catalog has a version of exactly 4 dot-separated
\* numeric components and a channel that is stable or lts, whatever tags
\* the release index returned.
\* The loop keeps what stands between the "v" and the suffix as it is:
\* the tag v2.1-stable gives an entry of version 2.1.
C21_EntriesWellFormed ==
    Listed =>
        \A e \in Range(ret.list) :
            FourNumeric(e.version) /\ e.channel \in Channels

\* a download call has returned
Downloaded == call.fn = "download" /\ ret # NoRet

\* text t has the text u in it
Contains(t, u) ==
    \E i \in 0..(Len(t) - Len(u)) : SubSeq(t, i + 1, i + Len(u)) = u

\* C22: a download fails with a Download condition that carries the URL
\* and the text of the underlying error both when the response is not 2xx
\* and when the request fails in transport.
\* A request that fails in transport leaves send() through `?` as an Http
\* condition, which carries no URL of the program's making.
C22_DownloadCondition ==
    (/\ Downloaded
     /\ detect_platform(call.plat).res = "Ok"
     /\ call.fail \in {"transport", "status"}) =>
        /\ ret.res = "Download"
        /\ Contains(ret.val,
                    build_download_url(call.plat, call.version,
                                       call.channel).val)

\* a call that builds a download address has returned
UrlBuilt == call.fn = "url" /\ ret # NoRet

\* C24: the address built for (version, channel) is exactly
\* https://github.com/ClickHouse/ClickHouse/releases/download/
\* v<version>-<channel>/clickhouse-<os>-<arch>, os and arch being those of
\* the platform detector, which returns macos or linux and x86_64 or
\* aarch64 and fails with UnsupportedPlatform, carrying the raw operating
\* system and architecture, for every other combination.
C24_DownloadUrl ==
    UrlBuilt =>
        LET os   == call.plat[1]
            arch == call.plat[2]
        IN  IF os \in {"macos", "linux"} /\ arch \in {"x86_64", "aarch64"}
            THEN /\ ret.res = "Ok"
                 /\ ret.val =
                        <<"https://github.com/ClickHouse/ClickHouse/releases/download/v">>
                        \o call.version \o <<"-">> \o call.channel
                        \o <<"/clickhouse-">> \o <<os>> \o <<"-">> \o <<arch>>
            ELSE /\ ret.res = "UnsupportedPlatform"
                 /\ ret.val = <<os, arch>>

\* C24 happens: the address of 25.12.5.44 lts for macos on aarch64 was
\* built
C24_Witness ==
    /\ UrlBuilt
    /\ call.plat = <<"macos", "aarch64">>
    /\ call.channel = <<"lts">>
    /\ Len(call.version) > 1
    /\ ret.res = "Ok"

\* the binary of version is that of an install that ran to its end:
\* set_permissions, the last step of install_version, is the one place that
\* sets the executable bit, and a remove takes the file away
Completed(f, version) ==
    /\ exists(f, binary_path(version))
    /\ f[binary_path(version).names].exec

\* C28: a version is listed by listInstalled(), or accepted by
\* setDefault(), only if an install of it ran to its end and it was not
\* removed since; a version whose install failed while the binary was
\* being streamed is neither listed nor accepted.
\* Both look for the file alone: the part of a binary that a failed
\* download leaves is listed and accepted.
C28_OnlyCompletedInstalls ==
    /\ lastOp.op = "list" =>
           \A v \in Range(lastOp.list) : Completed(fs, v)
    /\ (lastOp.op = "setDefault" /\ lastOp.res = "Ok") =>
           Completed(prevFs, lastOp.arg)

\* C29: remove(v) touches version v alone: the directory and the binary of
\* every other installed version stay as they were, and so does the default
\* pointer when it names another version, whatever string v is.
\* remove("") joins the empty string to versions/ and deletes that
\* directory with every version in it.
C29_RemoveOnlyThat ==
    lastOp.op = "remove" =>
        /\ \A w \in InstalledDirs(prevFs) :
               version_dir(w).names # version_dir(lastOp.arg).names =>
                   \A n \in DOMAIN prevFs :
                       IsPrefix(version_dir(w).names, n) =>
                           n \in DOMAIN fs /\ fs[n] = prevFs[n]
        /\ pointer_text(prevFs) # <<lastOp.arg>> =>
               pointer_text(fs) = pointer_text(prevFs)

Writers ==
    { p \in DOMAIN procs :
        /\ procs[p].fn = "install"
        /\ procs[p].pc \in {"next", "write", "count", "finish", "chmod"}
           \/ (procs[p].pc = "done" /\ procs[p].res = "Ok") }

\* what the destination file of a process holds
Written(l) == fs[binary_path(l.version).names].data

\* C23: the file always holds the chunks received so far, in arrival
\* order; whenever the loop is about to wait for the next chunk the byte
\* counter is the number of bytes in the file; and once the download has
\* reported completion the file holds every chunk received, so a
\* successful install leaves exactly their concatenation.
C23_FlushedBeforeCompletion ==
    \A p \in Writers :
        LET l == procs[p]
        IN  /\ IsPrefix(Written(l), Flatten(l.received))
            /\ l.pc \in {"next", "finish"} => l.downloaded = Len(Written(l))
            /\ l.pc \in {"chmod", "done"} => Written(l) = Flatten(l.received)

\* the order install_version takes its steps in
InstallOrder == <<"check", "mkdir", "download", "chmod">>

\* whether the binary of a version is there and executable
Executable(f, version) ==
    /\ exists(f, binary_path(version))
    /\ f[binary_path(version).names].exec

\* C27: install(v) begins its steps in the order existence check, create
\* version directory, download to <version-dir>/clickhouse, set executable
\* permission; a binary it downloads is executable only once the download
\* has returned success and the permission step has run; and it returns
\* success only with every step taken and the binary there and executable.
C27_StepOrder ==
    \A p \in DOMAIN procs :
        LET l == procs[p]
        IN  l.fn = "install" =>
                /\ IsPrefix(l.steps, InstallOrder)
                /\ ("mkdir" \in Range(l.steps) /\ Executable(fs, l.version)) =>
                       l.pc = "done" /\ l.res = "Ok"
                /\ "chmod" \in Range(l.steps) => l.pc = "done"
                /\ l.res = "Ok" =>
                       /\ l.steps = InstallOrder
                       /\ Executable(fs, l.version)
                       /\ binary_path(l.version).names =
                              version_dir(l.version).names
                              \o << <<"clickhouse">> >>

\* C27 happens: an install went through every step, received a chunk and
\* returned success
C27_Witness ==
    \E p \in DOMAIN procs :
        /\ procs[p].fn = "install"
        /\ procs[p].res = "Ok"
        /\ procs[p].steps = InstallOrder
        /\ procs[p].received # <<>>
        /\ Executable(fs, procs[p].version)

\* the install processes that are in the chunk loop of their download
Downloading ==
    { p \in DOMAIN procs :
        /\ procs[p].fn = "install"
        /\ procs[p].pc \in {"next", "write", "count"} }

\* C25: nothing but the existence check stands between two installs of
\* one version: VersionAlreadyInstalled is only ever reported by the
\* check itself, so an install that passed the check before the other
\* created the directory is never told so later, creates the directory
\* (again) without complaint, and downloads into the one binary path.
C25_NoLockAfterCheck ==
    \A p \in DOMAIN procs, q \in DOMAIN procs :
        LET l == procs[p]
            k == procs[q]
        IN  (l.fn = "install" /\ k.fn = "install") =>
                /\ l.res = "VersionAlreadyInstalled" => l.steps = <<"check">>
                /\ "download" \in Range(l.steps) =>
                       exists(fs, version_dir(l.version))
                /\ (p \in Downloading /\ q \in Downloading) =>
                       /\ binary_path(l.version) = binary_path(k.version)
                       /\ exists(fs, binary_path(l.version))

\* C25 happens: both installs passed the check, neither was refused, and
\* both are in the chunk loop with the one binary path as destination
C25_Witness ==
    /\ Downloading = {1, 2}
    /\ \A p \in {1, 2} :
           /\ procs[p].res = "none"
           /\ procs[p].steps = <<"check", "mkdir", "download">>
    /\ procs[1].version = procs[2].version
    /\ procs[1].received # <<>>
    /\ procs[2].received # <<>>

\* C26: however the steps of a remove(v) and of a setDefault(v) interleave,
\* once both have returned the default pointer, if there and not empty,
\* names a version whose binary exists.
C26_PointerAfterRace ==
    (\A p \in DOMAIN procs : procs[p].pc = "done") =>
        get_default_version(fs).res # "VersionNotFound"

====
